---- MODULE Spec2Model ----
(***************************************************************************)
(* go-google-calendarbot: the expiring insert-once cache (memoryCache),    *)
(* the generic cache-miss check (IsCacheMiss) and the notification         *)
(* workflow (Bot.NotifyIndividualEvents) of src/calendarbot.go.            *)
(*                                                                         *)
(* SpecCache: concurrent callers of memoryCache.Add / memoryCache.Get,     *)
(*            stepping through the mutex, the map read and the body.       *)
(* SpecSeq:   whole Add / Get calls in the order the mutex gives them,     *)
(*            with the last calls on one key remembered.                   *)
(* SpecBot:   concurrent NotifyIndividualEvents cycles of one Bot.         *)
(***************************************************************************)
EXTENDS Integers, Sequences, FiniteSets, TLC

\* ------------------------------------------------------------------ bounds
\* Number of concurrent callers of the cache.
NProcs == 2
\* The clock runs over 0..MaxTime (time.Now(), in abstract ticks).
MaxTime == 3

Procs == 1..NProcs
Keys == {"evt1", "evt2"}
\* []byte payloads handed to Add.
Vals == {<<1>>, <<2>>}
\* time.Duration arguments of Add; the code accepts any int64, negative too.
TTLs == {-1, 1, 2}
\* The ttl the contending callers of SpecCache pass.
CacheTTLs == {1}

\* ------------------------------------------------------------------ errors
\* An error value is modelled by its dynamic type, the method set of that
\* type, and what its miss-reporting method returns.
NilErr == [type |-> "nil", methods |-> {}, reports |-> FALSE, msg |-> ""]

\* type cacheMissError struct{}: methods IsCacheMiss() and Error().
cacheMissError ==
    [type |-> "cacheMissError", methods |-> {"IsCacheMiss", "Error"},
     reports |-> TRUE, msg |-> "cache miss"]

\* errors.New("entry exists") of github.com/pkg/errors.
ErrEntryExists ==
    [type |-> "fundamental", methods |-> {"Error", "Format"},
     reports |-> FALSE, msg |-> "entry exists"]

\* Errors of an EventCache implementation other than memoryCache: one that
\* implements cacheError and reports a miss, one that implements it and
\* reports no miss, and one that does not implement it.
backendMissError ==
    [type |-> "backend", methods |-> {"CacheMiss", "Error"},
     reports |-> TRUE, msg |-> "backend miss"]
backendOtherError ==
    [type |-> "backend", methods |-> {"CacheMiss", "Error"},
     reports |-> FALSE, msg |-> "backend failure"]
backendOpaqueError ==
    [type |-> "opaque", methods |-> {"Error"},
     reports |-> FALSE, msg |-> "backend failure"]

ErrorValues ==
    {NilErr, cacheMissError, ErrEntryExists,
     backendMissError, backendOtherError, backendOpaqueError}

\* type cacheError interface { CacheMiss() bool }
cacheError == {"CacheMiss"}

IsCacheMiss_AnyError(err) == err # NilErr

\* func IsCacheMiss(err error) bool: the type assertion err.(cacheError)
\* succeeds when the dynamic type has every method of cacheError (never for
\* a nil interface); then the result is what CacheMiss() returns.
IsCacheMiss(err) ==
    IF cacheError \subseteq err.methods THEN err.reports ELSE FALSE

\* ------------------------------------------------------------------ cache
\* type cacheEntry struct { Value []byte; Expires time.Time }
cacheEntry(val, expires) == [Value |-> val, Expires |-> expires]

\* The zero cacheEntry a map read yields for a missing key.
ZeroEntry == cacheEntry(<<>>, -1000)

\* newMemoryCache(): an empty map.
newMemoryCache == <<>>

\* e, ok := c.data[key]
Lookup(d, key) ==
    IF key \in DOMAIN d THEN [e |-> d[key], ok |-> TRUE]
    ELSE [e |-> ZeroEntry, ok |-> FALSE]

Delete_Sweep(d, key) ==
    [x \in {y \in (DOMAIN d) \ {key} : d[y].Expires >= d[key].Expires} |-> d[x]]

\* delete(c.data, key)
Delete(d, key) == [x \in (DOMAIN d) \ {key} |-> d[x]]

\* c.data[key] = entry
Store(d, key, entry) ==
    [x \in (DOMAIN d) \cup {key} |-> IF x = key THEN entry ELSE d[x]]

Before_OrEqual(t, u) == t <= u

\* time.Time.Before
Before(t, u) == t < u

AddBody_Overwrite(d, e, ok, key, val, ttl, t) ==
    IF ok
    THEN [data |-> Store(d, key, cacheEntry(val, t + ttl)), err |-> ErrEntryExists]
    ELSE [data |-> Store(d, key, cacheEntry(val, t + ttl)), err |-> NilErr]

AddBody_KeepExpired(d, e, ok, key, val, ttl, t) ==
    IF ok
    THEN [data |-> d, err |-> ErrEntryExists]
    ELSE [data |-> Store(d, key, cacheEntry(val, t + ttl)), err |-> NilErr]

AddBody_IgnoreTTL(d, e, ok, key, val, ttl, t) ==
    IF ok
    THEN [data |-> IF Before(e.Expires, t) THEN Delete(d, key) ELSE d,
          err |-> ErrEntryExists]
    ELSE [data |-> Store(d, key, cacheEntry(val, t)), err |-> NilErr]

\* memoryCache.Add after the map read (e, ok), with t the value of
\* time.Now(): the new map and the returned error.
AddBody(d, e, ok, key, val, ttl, t) ==
    IF ok
    THEN [data |-> IF Before(e.Expires, t) THEN Delete(d, key) ELSE d,
          err |-> ErrEntryExists]
    ELSE [data |-> Store(d, key, cacheEntry(val, t + ttl)), err |-> NilErr]

GetBody_ConsumeOnHit(d, e, ok, key, t) ==
    IF ~ok THEN [data |-> d, ret |-> <<>>, err |-> cacheMissError]
    ELSE IF Before(e.Expires, t)
    THEN [data |-> Delete(d, key), ret |-> <<>>, err |-> cacheMissError]
    ELSE [data |-> Delete(d, key), ret |-> <<e>>, err |-> NilErr]

GetBody_KeepExpired(d, e, ok, key, t) ==
    IF ~ok THEN [data |-> d, ret |-> <<>>, err |-> cacheMissError]
    ELSE IF Before(e.Expires, t)
    THEN [data |-> d, ret |-> <<>>, err |-> cacheMissError]
    ELSE [data |-> d, ret |-> <<e>>, err |-> NilErr]

\* memoryCache.Get after the map read (e, ok), with t the value of
\* time.Now(): the new map, the returned interface{} (<<>> is nil) and the
\* returned error.
GetBody(d, e, ok, key, t) ==
    IF ~ok THEN [data |-> d, ret |-> <<>>, err |-> cacheMissError]
    ELSE IF Before(e.Expires, t)
    THEN [data |-> Delete(d, key), ret |-> <<>>, err |-> cacheMissError]
    ELSE [data |-> d, ret |-> <<e>>, err |-> NilErr]

\* sync.Mutex: 0 when unlocked, else the holder.
Unlocked == 0

MutexFree_NoExclusion(m) == TRUE

\* c.mutex.Lock() returns only when the mutex is unlocked.
MutexFree(m) == m = Unlocked


\* ------------------------------------------------------------------ state
VARIABLES
    data,    \* memoryCache.data: a map from keys to cacheEntry
    mutex,   \* memoryCache.mutex
    now,     \* the wall clock read by time.Now()
    pc,      \* where each caller stands in its Add or Get call
    call,    \* each caller's arguments, locals and return values
    hist,    \* the last completed calls on the watched key, most recent first
    backend, \* which EventCache the Bot's Cache field holds
    wpc,     \* where each NotifyIndividualEvents cycle stands
    wf,      \* each cycle's locals
    posts,   \* per event id, what has been posted to the chat
    heap,    \* the backing arrays of the callers' []byte slices
    up       \* the last NotifyUpcomingEvents call: its inputs and effects

vars ==
    <<data, mutex, now, pc, call, hist, backend, wpc, wf, posts, heap, up>>

otherVars == <<heap, up>>

botVars == <<backend, wpc, wf, posts>>

\* The key whose calls hist remembers.
Watched == "evt1"

NoCall ==
    [op |-> "none", key |-> "", val |-> <<>>, ttl |-> 0,
     e |-> ZeroEntry, ok |-> FALSE, ret |-> <<>>, err |-> NilErr,
     round |-> FALSE]

\* A caller's round flag says: the key was absent when the call was issued
\* and no entry of that key has been evicted since.
Evicts(d, d2, key) == key \in DOMAIN d /\ key \notin DOMAIN d2

EndRound(cl, key) ==
    [q \in Procs |->
        IF cl[q].key = key THEN [cl[q] EXCEPT !.round = FALSE] ELSE cl[q]]

\* A cycle that is not running.
NoCycle ==
    [items |-> <<>>, i |-> 0, now |-> 0, getErr |-> NilErr, miss |-> FALSE,
     addErr |-> NilErr, result |-> "none"]

\* Nothing posted yet for an event id: no message, hence no last time and
\* no pair of messages closer than the cooldown.
NoPosts == [n |-> 0, last |-> 0, soon |-> FALSE]

\* No slice has been allocated yet.
NoHeap == <<>>

\* NotifyUpcomingEvents has not been called yet.
NoUpcoming == [items |-> <<>>, fails |-> "none", msgs |-> <<>>, result |-> "none"]

\* New(): Cache is newMemoryCache(); nothing has been posted.
InitBot(b) ==
    /\ backend = b
    /\ wpc = [w \in Procs |-> "idle"]
    /\ wf = [w \in Procs |-> NoCycle]
    /\ posts = [id \in Keys |-> NoPosts]

InitCache ==
    /\ InitBot("memory")
    /\ data = newMemoryCache
    /\ mutex = Unlocked
    /\ now = 0
    /\ pc = [p \in Procs |-> "idle"]
    /\ call = [p \in Procs |-> NoCall]
    /\ hist = <<>>
    /\ heap = NoHeap
    /\ up = NoUpcoming

\* ------------------------------------------------------- memoryCache calls
\* A caller issues c.Add(ctx, key, val, ttl).
AddCall(p, key, val, ttl) ==
    /\ pc[p] \in {"idle", "done"}
    /\ pc' = [pc EXCEPT ![p] = "lock"]
    /\ call' = [call EXCEPT ![p] =
                   [NoCall EXCEPT !.op = "Add", !.key = key, !.val = val,
                                  !.ttl = ttl,
                                  !.round = key \notin DOMAIN data]]
    /\ UNCHANGED <<data, mutex, now, hist, botVars, otherVars>>

\* A caller issues c.Get(ctx, key).
GetCall(p, key) ==
    /\ pc[p] \in {"idle", "done"}
    /\ pc' = [pc EXCEPT ![p] = "lock"]
    /\ call' = [call EXCEPT ![p] = [NoCall EXCEPT !.op = "Get", !.key = key]]
    /\ UNCHANGED <<data, mutex, now, hist, botVars, otherVars>>

\* c.mutex.Lock(); defer c.mutex.Unlock()
Lock(p) ==
    /\ pc[p] = "lock"
    /\ MutexFree(mutex)
    /\ mutex' = p
    /\ pc' = [pc EXCEPT ![p] = "read"]
    /\ UNCHANGED <<data, now, call, hist, botVars, otherVars>>

\* e, ok := c.data[key]
Read(p) ==
    /\ pc[p] = "read"
    /\ LET r == Lookup(data, call[p].key)
       IN call' = [call EXCEPT ![p].e = r.e, ![p].ok = r.ok]
    /\ pc' = [pc EXCEPT ![p] = "body"]
    /\ UNCHANGED <<data, mutex, now, hist, botVars, otherVars>>

\* The rest of Add, its return and the deferred Unlock.
AddReturn(p) ==
    /\ pc[p] = "body"
    /\ call[p].op = "Add"
    /\ LET c == call[p]
           r == AddBody(data, c.e, c.ok, c.key, c.val, c.ttl, now)
           cl == [call EXCEPT ![p].err = r.err]
       IN /\ data' = r.data
          /\ call' = IF Evicts(data, r.data, c.key)
                     THEN EndRound(cl, c.key) ELSE cl
    /\ mutex' = Unlocked
    /\ pc' = [pc EXCEPT ![p] = "done"]
    /\ UNCHANGED <<now, hist, botVars, otherVars>>

\* The rest of Get, its return and the deferred Unlock.
GetReturn(p) ==
    /\ pc[p] = "body"
    /\ call[p].op = "Get"
    /\ LET c == call[p]
           r == GetBody(data, c.e, c.ok, c.key, now)
           cl == [call EXCEPT ![p].ret = r.ret, ![p].err = r.err]
       IN /\ data' = r.data
          /\ call' = IF Evicts(data, r.data, c.key)
                     THEN EndRound(cl, c.key) ELSE cl
    /\ mutex' = Unlocked
    /\ pc' = [pc EXCEPT ![p] = "done"]
    /\ UNCHANGED <<now, hist, botVars, otherVars>>

\* Time passes.
Tick ==
    /\ now < MaxTime
    /\ now' = now + 1
    /\ UNCHANGED <<data, mutex, pc, call, hist, botVars, otherVars>>

\* Concurrent callers contend for one key.
NextCache ==
    \/ \E p \in Procs, val \in Vals, ttl \in CacheTTLs :
          AddCall(p, Watched, val, ttl)
    \/ \E p \in Procs : GetCall(p, Watched)
    \/ \E p \in Procs : Lock(p)
    \/ \E p \in Procs : Read(p)
    \/ \E p \in Procs : AddReturn(p)
    \/ \E p \in Procs : GetReturn(p)
    \/ Tick

SpecCache == InitCache /\ [][NextCache]_vars

\* --------------------------------------------- memoryCache calls, in order
\* The mutex makes every call one step of the map; here whole calls follow
\* one another and each key remembers its last calls.

\* Whether the map holds key at time t as absent, expired or live.
KeyState(d, key, t) ==
    IF key \notin DOMAIN d THEN "absent"
    ELSE IF d[key].Expires < t THEN "expired" ELSE "live"

\* What a completed call is remembered by: the operation and its arguments,
\* the map's entry for the key before and after it, the time it read, and
\* what it returned.
Done(op, key, val, ttl, d, d2, t, ret, err) ==
    [op |-> op, val |-> val, ttl |-> ttl, at |-> t,
     pre |-> KeyState(d, key, t), was |-> Lookup(d, key),
     post |-> Lookup(d2, key), ret |-> ret, err |-> err]

\* Only the two most recent calls keep their details.
Fade(h) ==
    [h EXCEPT !.val = <<>>, !.ttl = 0, !.at = 0,
              !.was = Lookup(<<>>, ""), !.post = Lookup(<<>>, ""),
              !.ret = <<>>]

Push(h, rec) ==
    IF Len(h) = 0 THEN <<rec>>
    ELSE IF Len(h) = 1 THEN <<rec, h[1]>>
    ELSE <<rec, h[1], Fade(h[2])>>

\* c.Add(ctx, key, val, ttl), from Lock to the deferred Unlock.
Add(key, val, ttl) ==
    /\ LET l == Lookup(data, key)
           r == AddBody(data, l.e, l.ok, key, val, ttl, now)
       IN /\ data' = r.data
          /\ hist' = IF key = Watched
                     THEN Push(hist, Done("Add", key, val, ttl, data, r.data,
                                          now, <<>>, r.err))
                     ELSE hist
    /\ UNCHANGED <<mutex, now, pc, call, botVars, otherVars>>

\* c.Get(ctx, key), from Lock to the deferred Unlock.
Get(key) ==
    /\ LET l == Lookup(data, key)
           r == GetBody(data, l.e, l.ok, key, now)
       IN /\ data' = r.data
          /\ hist' = IF key = Watched
                     THEN Push(hist, Done("Get", key, <<>>, 0, data, r.data,
                                          now, r.ret, r.err))
                     ELSE hist
    /\ UNCHANGED <<mutex, now, pc, call, botVars, otherVars>>

NextSeq ==
    \/ \E key \in Keys, val \in Vals, ttl \in TTLs : Add(key, val, ttl)
    \/ \E key \in Keys : Get(key)
    \/ Tick

SpecSeq == InitCache /\ [][NextSeq]_vars


\* ------------------------------------------------ Bot.NotifyIndividualEvents
\* 15*time.Minute, in clock ticks of one minute.
Cooldown == 15

\* The instants at which the Bot's clock is read: the start, a minute
\* later, the end of a cooldown that began at the start, and a minute after.
Instants == {0, 1, Cooldown, Cooldown + 1}
BotMaxTime == Cooldown + 1

\* event.Start.DateTime: an RFC3339 time, or a text time.Parse rejects
\* (an all-day event has none).
BadTime == -1
StartTimes == {BadTime, 0, BotMaxTime + 1}

\* calendar.Event, as far as the cycle reads it.
Event(id, start) == [Id |-> id, Start |-> start]

\* events.Items: what Events.List(...).Do() may return, over the event ids
\* in ids and up to two events long.
ListingsOf(ids) ==
    {<<>>}
    \cup {<<Event(id, st)>> : id \in ids, st \in StartTimes}
    \cup {l \in {<<Event(a, s1), Event(b, s2)>> :
                     a \in ids, b \in ids, s1 \in StartTimes, s2 \in StartTimes} :
             l[1].Id # l[2].Id}

\* Bot.Cache: the memoryCache of New(), or another EventCache whose Get
\* reports a missing key with an error that implements cacheError.
Backends == {"memory", "other"}

\* The error b.Cache.Get returns for a miss.
MissError(b) == IF b = "memory" THEN cacheMissError ELSE backendMissError

\* b.Cache.Get(ctx, key): the map, the value and the error.
CacheGet(b, d, key, t) ==
    LET l == Lookup(d, key)
        r == GetBody(d, l.e, l.ok, key, t)
    IN  [r EXCEPT !.err = IF r.err = NilErr THEN NilErr ELSE MissError(b)]

CacheAdd_Dropped(b, d, key, val, ttl, t) == [data |-> d, err |-> NilErr]

\* b.Cache.Add(ctx, key, val, ttl): the map and the error.
CacheAdd(b, d, key, val, ttl, t) ==
    LET l == Lookup(d, key)
    IN  AddBody(d, l.e, l.ok, key, val, ttl, t)

\* What is left of a cycle that has returned: its result, and the errors
\* its last cache calls gave.
Returned(c, why) ==
    [NoCycle EXCEPT !.getErr = c.getErr, !.miss = c.miss,
                    !.addErr = c.addErr, !.result = why]

\* A step of the loop that goes on with new locals c.
ContinueWith(w, c) ==
    IF c.i < Len(c.items)
    THEN /\ wpc' = [wpc EXCEPT ![w] = "get"]
         /\ wf' = [wf EXCEPT ![w] = [c EXCEPT !.i = @ + 1]]
    ELSE /\ wpc' = [wpc EXCEPT ![w] = "done"]
         /\ wf' = [wf EXCEPT ![w] = Returned(c, "nil")]

ReturnError_Continue(w, c, why) == ContinueWith(w, c)

\* return errors.Wrap(err, why)
ReturnError(w, c, why) ==
    /\ wpc' = [wpc EXCEPT ![w] = "done"]
    /\ wf' = [wf EXCEPT ![w] = Returned(c, why)]

Skip_Process(w, c) ==
    /\ wpc' = [wpc EXCEPT ![w] = "process"]
    /\ wf' = [wf EXCEPT ![w] = c]

\* case err == nil: continue
Skip(w, c) == ContinueWith(w, c)

\* CalendarService and Events.List succeed; now := time.Now().UTC().
Begin(w, items) ==
    /\ wpc[w] \in {"idle", "done"}
    /\ ContinueWith(w, [NoCycle EXCEPT !.items = items, !.now = now])
    /\ UNCHANGED <<data, mutex, now, pc, call, hist, backend, posts, otherVars>>

\* CalendarService or Events.List fails.
BeginFails(w, why) ==
    /\ wpc[w] \in {"idle", "done"}
    /\ ReturnError(w, NoCycle, why)
    /\ UNCHANGED <<data, mutex, now, pc, call, hist, backend, posts, otherVars>>

\* _, err := b.Cache.Get(ctx, event.Id) and the switch on err.
LookUp(w) ==
    /\ wpc[w] = "get"
    /\ LET c == wf[w]
           r == CacheGet(backend, data, c.items[c.i].Id, now)
           c2 == [c EXCEPT !.getErr = r.err, !.miss = IsCacheMiss(r.err),
                           !.addErr = NilErr]
       IN /\ data' = r.data
          /\ IF r.err = NilErr THEN Skip(w, c2)
             ELSE IF IsCacheMiss(r.err)
             THEN /\ wpc' = [wpc EXCEPT ![w] = "process"]
                  /\ wf' = [wf EXCEPT ![w] = c2]
             ELSE ReturnError(w, c2, "failed to communicate with cache")
    /\ UNCHANGED <<mutex, now, pc, call, hist, backend, posts, otherVars>>

\* Another EventCache fails the Get with an error of its own.
LookUpFails(w, err) ==
    /\ wpc[w] = "get"
    /\ backend = "other"
    /\ LET c2 == [wf[w] EXCEPT !.getErr = err, !.miss = IsCacheMiss(err),
                               !.addErr = NilErr]
       IN IF IsCacheMiss(err)
          THEN /\ wpc' = [wpc EXCEPT ![w] = "process"]
               /\ wf' = [wf EXCEPT ![w] = c2]
          ELSE ReturnError(w, c2, "failed to communicate with cache")
    /\ UNCHANGED <<data, mutex, now, pc, call, hist, backend, posts, otherVars>>

\* time.Parse of the start time; a start before now is recorded and skipped.
Process(w) ==
    /\ wpc[w] = "process"
    /\ LET c == wf[w]
           ev == c.items[c.i]
       IN IF ev.Start = BadTime
          THEN /\ ReturnError(w, c, "failed to parse event start time")
               /\ data' = data
          ELSE IF ev.Start - c.now < 0
          THEN LET r == CacheAdd(backend, data, ev.Id, <<1>>, Cooldown, now)
               IN /\ data' = r.data
                  /\ ContinueWith(w, [c EXCEPT !.addErr = r.err])
          ELSE /\ wpc' = [wpc EXCEPT ![w] = "post"]
               /\ wf' = wf
               /\ data' = data
    /\ UNCHANGED <<mutex, now, pc, call, hist, backend, posts, otherVars>>

\* What the chat holds for an event id after one more message at time t.
Posted(ps, t) ==
    [n |-> 1, last |-> t,
     soon |-> ps.soon \/ (ps.n > 0 /\ t - ps.last < Cooldown)]

\* postSlack succeeds: the message is in the channel.
Post(w) ==
    /\ wpc[w] = "post"
    /\ LET id == wf[w].items[wf[w].i].Id
       IN posts' = [posts EXCEPT ![id] = Posted(@, now)]
    /\ wpc' = [wpc EXCEPT ![w] = "record"]
    /\ UNCHANGED <<data, mutex, now, pc, call, hist, backend, wf, otherVars>>

\* postSlack fails.
PostFails(w) ==
    /\ wpc[w] = "post"
    /\ ReturnError(w, wf[w], "failed to post message to slack")
    /\ UNCHANGED <<data, mutex, now, pc, call, hist, backend, posts, otherVars>>

\* b.Cache.Add(ctx, event.Id, []byte{0x1}, 15*time.Minute) after the post.
Record(w) ==
    /\ wpc[w] = "record"
    /\ LET c == wf[w]
           r == CacheAdd(backend, data, c.items[c.i].Id, <<1>>, Cooldown, now)
       IN /\ data' = r.data
          /\ ContinueWith(w, [c EXCEPT !.addErr = r.err])
    /\ UNCHANGED <<mutex, now, pc, call, hist, backend, posts, otherVars>>

\* Time passes for the Bot.
TickBot ==
    /\ \E t \in Instants :
          /\ now < t
          /\ now' = t
    /\ UNCHANGED <<data, mutex, pc, call, hist, botVars, otherVars>>

InitBotSpec ==
    /\ \E b \in Backends : InitBot(b)
    /\ data = newMemoryCache
    /\ mutex = Unlocked
    /\ now = 0
    /\ pc = [p \in Procs |-> "idle"]
    /\ call = [p \in Procs |-> NoCall]
    /\ hist = <<>>
    /\ heap = NoHeap
    /\ up = NoUpcoming

\* The cycles in W run NotifyIndividualEvents on listings from L.
NextCycles(W, L) ==
    \/ \E w \in W, items \in L : Begin(w, items)
    \/ \E w \in W :
          \E why \in {"failed to create calendar service",
                      "failed to list events"} : BeginFails(w, why)
    \/ \E w \in W : LookUp(w)
    \/ \E w \in W :
          \E err \in {backendOtherError, backendOpaqueError} : LookUpFails(w, err)
    \/ \E w \in W : Process(w)
    \/ \E w \in W : Post(w)
    \/ \E w \in W : PostFails(w)
    \/ \E w \in W : Record(w)
    \/ TickBot

\* Concurrent cycles that are handed the same event.
NextBot == NextCycles(Procs, ListingsOf({Watched}))

SpecBot == InitBotSpec /\ [][NextBot]_vars

\* One cycle after another, on listings of up to two different events.
NextLoop == NextCycles({1}, ListingsOf(Keys))

SpecLoop == InitBotSpec /\ [][NextLoop]_vars


\* ------------------------------------------------ []byte values by reference
\* In the specifications above no caller writes to a slice after handing it
\* over, so a []byte is identified with its bytes. Here a []byte is a slice
\* header pointing to a backing array in heap: copying the header, into the
\* cacheEntry that Add stores or into the cacheEntry that Get returns, copies
\* the pointer and not the array.
Addrs == {1, 2}
Bytes == {1, 2}

Slice(a) == [ptr |-> a]
Deref(h, s) == h[s.ptr]

\* The three most recent steps on the watched key, most recent first.
Recent(h, rec) ==
    IF Len(h) < 3 THEN <<rec>> \o h ELSE <<rec, h[1], h[2]>>

\* val := []byte{b}
Alloc(a, b) ==
    /\ a \notin DOMAIN heap
    /\ heap' = (a :> <<b>>) @@ heap
    /\ UNCHANGED <<data, mutex, now, pc, call, hist, botVars, up>>

\* c.Add(ctx, key, val, ttl) with val the slice at a: the entry stored is
\* cacheEntry{Value: val, ...}.
AddSlice(a, ttl) ==
    /\ a \in DOMAIN heap
    /\ LET l == Lookup(data, Watched)
           r == AddBody(data, l.e, l.ok, Watched, Slice(a), ttl, now)
       IN /\ data' = r.data
          /\ hist' = Recent(hist, [op |-> "Add", ptr |-> a, bytes |-> heap[a],
                                   err |-> r.err])
    /\ UNCHANGED <<mutex, now, pc, call, botVars, heap, up>>

\* e, err := c.Get(ctx, key): the caller reads e.(cacheEntry).Value.
GetSlice ==
    /\ LET l == Lookup(data, Watched)
           r == GetBody(data, l.e, l.ok, Watched, now)
           hit == r.ret # <<>>
       IN /\ data' = r.data
          /\ hist' = Recent(hist,
                 [op |-> "Get",
                  ptr |-> IF hit THEN r.ret[1].Value.ptr ELSE 0,
                  bytes |-> IF hit THEN Deref(heap, r.ret[1].Value) ELSE <<>>,
                  err |-> r.err])
    /\ UNCHANGED <<mutex, now, pc, call, botVars, heap, up>>

\* val[0] = b, on a slice the caller passed to Add earlier.
WritePassed(a, b) ==
    /\ a \in DOMAIN heap
    /\ heap' = [heap EXCEPT ![a] = <<b>>]
    /\ hist' = Recent(hist, [op |-> "Write", ptr |-> a, bytes |-> <<b>>,
                             err |-> NilErr])
    /\ UNCHANGED <<data, mutex, now, pc, call, botVars, up>>

\* e.(cacheEntry).Value[0] = b, on the entry the last Get returned.
WriteReturned(b) ==
    /\ Len(hist) >= 1 /\ hist[1].op = "Get" /\ hist[1].err = NilErr
    /\ heap' = [heap EXCEPT ![hist[1].ptr] = <<b>>]
    /\ hist' = Recent(hist, [op |-> "Write", ptr |-> hist[1].ptr,
                             bytes |-> <<b>>, err |-> NilErr])
    /\ UNCHANGED <<data, mutex, now, pc, call, botVars, up>>

NextShare ==
    \/ \E a \in Addrs, b \in Bytes : Alloc(a, b)
    \/ \E a \in Addrs, ttl \in TTLs : AddSlice(a, ttl)
    \/ GetSlice
    \/ \E a \in Addrs, b \in Bytes : WritePassed(a, b)
    \/ \E b \in Bytes : WriteReturned(b)
    \/ Tick

SpecShare == InitCache /\ [][NextShare]_vars


\* --------------------------------------------------- Bot.NotifyUpcomingEvents
\* calendar.Event, as far as NotifyUpcomingEvents reads it.
UpEvent(id, start, end) == [Id |-> id, Start |-> start, End |-> end]

\* events.Items: up to two events, each with a start and an end that
\* time.Parse accepts or rejects.
UpListings ==
    LET E == {UpEvent(id, st, en) :
                 id \in Keys, st \in {BadTime, 9}, en \in {BadTime, 10}}
    IN {<<>>} \cup {<<e>> : e \in E}
       \cup {l \in {<<e, f>> : e \in E, f \in E} : l[1].Id # l[2].Id}

\* What can fail outside the program: b.CalendarService, Events.List,
\* slackcl.AuthTest, channelID and slackcl.PostMessage.
UpFailures ==
    {"none", "calendar service", "list", "slack auth", "slack channel",
     "slack post"}

\* slack.AttachmentField{Value: "<t1>-<t2>: <link|summary>"}
Field(event) == [Value |-> <<event.Start, event.End, event.Id>>]

\* time.Parse(time.RFC3339, s) returns a nil error.
Parses(t) == t # BadTime

RECURSIVE UpcomingFields_SkipUnparsed(_, _, _)
UpcomingFields_SkipUnparsed(items, i, fields) ==
    IF i > Len(items) THEN [err |-> "nil", fields |-> fields]
    ELSE IF ~Parses(items[i].Start) \/ ~Parses(items[i].End)
    THEN UpcomingFields_SkipUnparsed(items, i + 1, fields)
    ELSE UpcomingFields_SkipUnparsed(items, i + 1,
                                     Append(fields, Field(items[i])))

\* The loop over events.Items from index i on: it returns at the first event
\* whose start or end does not parse, else fills one field per event.
RECURSIVE UpcomingFields(_, _, _)
UpcomingFields(items, i, fields) ==
    IF i > Len(items) THEN [err |-> "nil", fields |-> fields]
    ELSE IF ~Parses(items[i].Start)
    THEN [err |-> "failed to parse start date/time", fields |-> fields]
    ELSE IF ~Parses(items[i].End)
    THEN [err |-> "failed to parse end date/time", fields |-> fields]
    ELSE UpcomingFields(items, i + 1, Append(fields, Field(items[i])))

\* postSlack with one attachment holding fields: the messages it posted and
\* the wrapped error NotifyUpcomingEvents returns.
PostSlack(fails, fields) ==
    IF fails \in {"slack auth", "slack channel", "slack post"}
    THEN [msgs |-> <<>>, err |-> "failed to post message to slack"]
    ELSE [msgs |-> <<[Fields |-> fields]>>, err |-> "nil"]

\* b.NotifyUpcomingEvents(ctx, t, delta), with items what Events.List
\* returns and fails what goes wrong outside: the messages posted and the
\* error returned.
Upcoming(fails, items) ==
    IF fails = "calendar service"
    THEN [msgs |-> <<>>, err |-> "failed to create calendar service"]
    ELSE IF fails = "list"
    THEN [msgs |-> <<>>, err |-> "failed to list events"]
    ELSE IF Len(items) = 0
    THEN [msgs |-> <<>>, err |-> "nil"]
    ELSE LET f == UpcomingFields(items, 1, <<>>)
         IN IF f.err # "nil" THEN [msgs |-> <<>>, err |-> f.err]
            ELSE PostSlack(fails, f.fields)

NotifyUpcomingEvents(fails, items) ==
    /\ fails \in {"calendar service", "list"} => items = <<>>
    /\ LET r == Upcoming(fails, items)
       IN up' = [items |-> items, fails |-> fails, msgs |-> r.msgs,
                 result |-> r.err]
    /\ UNCHANGED <<data, mutex, now, pc, call, hist, botVars, heap>>

NextUpcoming ==
    \E fails \in UpFailures, items \in UpListings :
        NotifyUpcomingEvents(fails, items)

SpecUpcoming == InitCache /\ [][NextUpcoming]_vars


\* ------------------------------------------------------------------ claims
\* The n-th most recent completed call on the watched key.
Has(n) == Len(hist) >= n
IsAdd(h) == h.op = "Add"
IsGet(h) == h.op = "Get"
Missed(h) == h.pre \in {"absent", "expired"}

\* C1: the error memoryCache.Get returns for an absent or expired key is
\* classified as a cache miss by IsCacheMiss.
C1_GetMissIsCacheMiss ==
    (Has(1) /\ IsGet(hist[1]) /\ Missed(hist[1])) => IsCacheMiss(hist[1].err)

CacheFailure == "failed to communicate with cache"

\* C2: a cycle whose Cache.Get gave the cache's miss error goes on to process
\* the event; it never returns "failed to communicate with cache" for it.
C2_MissNeverAborts ==
    \A w \in Procs :
        wf[w].getErr = MissError(backend) => wf[w].result # CacheFailure

\* C3: no two messages for the same event id are posted less than the
\* cooldown apart, however the cycles sharing the cache are interleaved.
C3_OncePerCooldown == \A id \in Keys : ~posts[id].soon

\* The callers that have completed an Add on the watched key which they
\* issued while the key was absent, with no eviction since.
Round ==
    {p \in Procs : /\ pc[p] = "done"
                   /\ call[p].op = "Add"
                   /\ call[p].key = Watched
                   /\ call[p].round}

\* C4: when all N callers add the same absent key concurrently and no entry
\* expires meanwhile, exactly one Add succeeds, the others return the
\* entry-exists error, and the stored value is the winner's payload.
C4_ExactlyOneAddWins ==
    Round = Procs =>
        \E w \in Procs :
            /\ call[w].err = NilErr
            /\ \A q \in Procs \ {w} : call[q].err = ErrEntryExists
            /\ Lookup(data, Watched).ok
            /\ Lookup(data, Watched).e.Value = call[w].val

C4_Witness ==
    /\ Round = Procs
    /\ \E p \in Procs, q \in Procs :
          /\ call[p].err = NilErr
          /\ call[q].err = ErrEntryExists
          /\ call[p].val # call[q].val

\* C5: Add on a present, unexpired key returns the entry-exists error and
\* leaves the entry as it was, and a Get that follows before the original
\* expiry returns the original entry.
C5_AddKeepsLiveEntry ==
    /\ (Has(1) /\ IsAdd(hist[1]) /\ hist[1].pre = "live") =>
          /\ hist[1].err = ErrEntryExists
          /\ hist[1].post = hist[1].was
    /\ (/\ Has(2)
        /\ IsAdd(hist[2]) /\ hist[2].pre = "live"
        /\ IsGet(hist[1]) /\ hist[1].at < hist[2].was.e.Expires) =>
          /\ hist[1].err = NilErr
          /\ hist[1].ret = <<hist[2].was.e>>

C5_Witness ==
    /\ Has(2)
    /\ IsAdd(hist[2]) /\ hist[2].pre = "live"
    /\ hist[2].val # hist[2].was.e.Value
    /\ hist[2].at + hist[2].ttl # hist[2].was.e.Expires
    /\ IsGet(hist[1]) /\ hist[1].at < hist[2].was.e.Expires
    /\ hist[1].at > hist[2].at

\* C6: Add on a present but expired key removes the entry, returns the
\* entry-exists error and stores nothing; the next Add on the key succeeds.
C6_AddOnExpired ==
    /\ (Has(1) /\ IsAdd(hist[1]) /\ hist[1].pre = "expired") =>
          /\ hist[1].err = ErrEntryExists
          /\ ~hist[1].post.ok
    /\ (/\ Has(2)
        /\ IsAdd(hist[2]) /\ hist[2].pre = "expired"
        /\ IsAdd(hist[1])) =>
          /\ hist[1].err = NilErr
          /\ hist[1].post.ok
          /\ hist[1].post.e.Value = hist[1].val

C6_Witness ==
    /\ Has(2)
    /\ IsAdd(hist[2]) /\ hist[2].pre = "expired"
    /\ IsAdd(hist[1])
    /\ hist[1].val # hist[2].val

\* The last three calls on the key were Get on an expired entry, Add, Add.
GetAddAdd ==
    /\ Has(3)
    /\ IsGet(hist[3]) /\ hist[3].pre = "expired"
    /\ IsAdd(hist[2])
    /\ IsAdd(hist[1])

\* C7, as claimed: after the ttl has elapsed, Get, Add, Add yield a cache
\* miss, the entry-exists error, and success.
C7_MissExistsSuccess ==
    GetAddAdd =>
        /\ hist[3].err = cacheMissError
        /\ hist[2].err = ErrEntryExists
        /\ hist[1].err = NilErr

\* C7, amended: after the ttl has elapsed, Get, Add, Add yield a cache miss,
\* success (the Get has removed the entry), and the entry-exists error.
C7_MissSuccessExists ==
    GetAddAdd =>
        /\ hist[3].err = cacheMissError
        /\ hist[2].err = NilErr
        /\ hist[1].err = ErrEntryExists

C7_Witness == GetAddAdd /\ hist[1].pre = "live"

\* C8: Get on an absent or expired key returns the cache-miss error and no
\* value, and leaves no entry for the key (an expired one is removed).
C8_GetMiss ==
    (Has(1) /\ IsGet(hist[1]) /\ Missed(hist[1])) =>
        /\ hist[1].err = cacheMissError
        /\ hist[1].ret = <<>>
        /\ ~hist[1].post.ok

C8_Witness ==
    /\ Has(1) /\ IsGet(hist[1]) /\ hist[1].pre = "expired"
    /\ hist[1].was.ok

\* C9: Add on an absent key succeeds and stores the value with expiry
\* (time of the call + ttl); for ttl > 0 a Get at once afterwards returns
\* exactly that entry.
C9_AddThenGet ==
    /\ (Has(1) /\ IsAdd(hist[1]) /\ hist[1].pre = "absent") =>
          /\ hist[1].err = NilErr
          /\ hist[1].post =
                [e |-> cacheEntry(hist[1].val, hist[1].at + hist[1].ttl),
                 ok |-> TRUE]
    /\ (/\ Has(2)
        /\ IsAdd(hist[2]) /\ hist[2].pre = "absent" /\ hist[2].ttl > 0
        /\ IsGet(hist[1]) /\ hist[1].at = hist[2].at) =>
          /\ hist[1].err = NilErr
          /\ hist[1].ret =
                <<cacheEntry(hist[2].val, hist[2].at + hist[2].ttl)>>

C9_Witness ==
    /\ Has(2)
    /\ IsAdd(hist[2]) /\ hist[2].pre = "absent" /\ hist[2].ttl > 0
    /\ hist[2].at > 0
    /\ IsGet(hist[1]) /\ hist[1].at = hist[2].at

\* The errors that are no cache miss: nil, the entry-exists error of Add,
\* and the errors of another backend that do not report a miss.
NotAMiss == {NilErr, ErrEntryExists, backendOtherError, backendOpaqueError}

\* C10: IsCacheMiss answers false for every error that is no cache miss;
\* the cycle's switch does not take such an error from Get for a miss, and
\* the entry-exists error its Add returns is none either.
C10_OnlyMissesAreMisses ==
    \A w \in Procs :
        /\ wf[w].getErr \in NotAMiss => ~wf[w].miss
        /\ wf[w].addErr \in NotAMiss /\ ~IsCacheMiss(wf[w].addErr)

C10_Witness ==
    \E w \in Procs, v \in Procs :
        /\ wf[w].addErr = ErrEntryExists
        /\ wf[v].getErr = backendOpaqueError
        /\ wf[v].result = CacheFailure


\* The scheduler runs every goroutine that can step, and a caller blocked in
\* Lock gets the mutex if it is free again and again (sync.Mutex hands a
\* starving waiter the lock).
FairCache ==
    \A p \in Procs :
        /\ SF_vars(Lock(p))
        /\ WF_vars(Read(p))
        /\ WF_vars(AddReturn(p))
        /\ WF_vars(GetReturn(p))

\* Callers contend for one key at one instant; a negative ttl stores an
\* entry that is expired at once, so every return path of Add and Get is
\* taken.
NextLock ==
    \/ \E p \in Procs, ttl \in {-1, 1} : AddCall(p, Watched, <<1>>, ttl)
    \/ \E p \in Procs : GetCall(p, Watched)
    \/ \E p \in Procs : Lock(p)
    \/ \E p \in Procs : Read(p)
    \/ \E p \in Procs : AddReturn(p)
    \/ \E p \in Procs : GetReturn(p)

SpecLock == InitCache /\ [][NextLock]_vars /\ FairCache

\* The callers between Lock and the deferred Unlock.
Inside == {p \in Procs : pc[p] \in {"read", "body"}}

\* At most one caller is inside; the mutex is held exactly by it; and what
\* it read from the map is still what the map holds.
Serialized ==
    /\ Cardinality(Inside) <= 1
    /\ \A p \in Inside : mutex = p
    /\ Inside = {} => mutex = Unlocked
    /\ \A p \in Procs :
          pc[p] = "body" =>
              /\ call[p].ok = Lookup(data, call[p].key).ok
              /\ call[p].e = Lookup(data, call[p].key).e

\* C11: every Add and Get holds the one mutex from before its map read
\* until it returns, so at most one call is inside the read-modify-write
\* section and sees the map unchanged by others; the mutex is released on
\* every return path, so every caller waiting in Lock completes its call.
C11_MutexSerializes ==
    /\ []Serialized
    /\ \A p \in Procs : (pc[p] = "lock") ~> (pc[p] = "done")

C11_Witness ==
    \E p \in Procs, q \in Procs :
        /\ pc[p] = "body" /\ call[p].ok
        /\ pc[q] = "lock"

\* C12: a Get on a key that is present and unexpired returns the stored
\* entry (value and expiry) with a nil error, and the step leaves the whole
\* map as it was: nothing added, removed or modified, for any key.
C12_GetLiveIsPure ==
    [][\A k \in Keys :
          (KeyState(data, k, now) = "live" /\ Get(k)) =>
              LET l == Lookup(data, k)
                  r == GetBody(data, l.e, l.ok, k, now)
              IN /\ r.ret = <<data[k]>>
                 /\ r.err = NilErr
                 /\ data' = data
                 /\ k = Watched => /\ hist'[1].ret = <<data[k]>>
                                   /\ hist'[1].err = NilErr]_vars

\* A Get has returned the live entry of the watched key while the map also
\* holds another key.
C12_Witness ==
    /\ Has(1) /\ IsGet(hist[1]) /\ hist[1].pre = "live"
    /\ hist[1].ret = <<hist[1].was.e>>
    /\ hist[1].post = hist[1].was
    /\ DOMAIN data = Keys

\* C13: the cache hands out and keeps copies: when two Gets on a key both
\* return its entry and the caller only wrote to a slice in between (the one
\* it passed to Add, or the value the first Get returned), the second Get
\* returns the same value bytes as the first.
C13_NoSharing ==
    (/\ Has(3)
     /\ hist[3].op = "Get" /\ hist[3].err = NilErr
     /\ hist[2].op = "Write"
     /\ hist[1].op = "Get" /\ hist[1].err = NilErr)
        => hist[1].bytes = hist[3].bytes

\* The last NotifyUpcomingEvents call got its listing, and every event's
\* start and end parsed.
Listed == up.fails \notin {"calendar service", "list"}
AllParse ==
    \A i \in 1..Len(up.items) :
        Parses(up.items[i].Start) /\ Parses(up.items[i].End)
PostFailed == up.fails \in {"slack auth", "slack channel", "slack post"}
OneMessagePerListing ==
    /\ Len(up.msgs) = 1
    /\ Len(up.msgs[1].Fields) = Len(up.items)
    /\ \A i \in 1..Len(up.items) : up.msgs[1].Fields[i] = Field(up.items[i])

\* C14 as stated: a call posts at most one message; exactly one, with one
\* field per listed event, when the listing is non-empty and every start and
\* end parses; none when the listing is empty or listing or parsing fails.
C14_OneMessagePerCall ==
    up.result # "none" =>
        /\ Len(up.msgs) <= 1
        /\ (Listed /\ Len(up.items) > 0 /\ AllParse) => OneMessagePerListing
        /\ (~Listed \/ Len(up.items) = 0 \/ ~AllParse) => up.msgs = <<>>

\* C14, amended: a call posts at most one message; exactly one, with one
\* field per listed event, when the listing is non-empty, every start and end
\* parses and the post to the chat succeeds; none when the listing is empty
\* or when creating the service, listing, parsing or posting fails.
C14_OneMessageIfPosted ==
    up.result # "none" =>
        /\ Len(up.msgs) <= 1
        /\ (Listed /\ Len(up.items) > 0 /\ AllParse /\ ~PostFailed)
               => OneMessagePerListing /\ up.result = "nil"
        /\ (~Listed \/ Len(up.items) = 0 \/ ~AllParse \/ PostFailed)
               => up.msgs = <<>>

\* A call has posted one message with two fields for a two-event listing.
C14_Witness ==
    /\ up.result = "nil"
    /\ Len(up.items) = 2
    /\ Len(up.msgs) = 1 /\ Len(up.msgs[1].Fields) = 2

\* The most recent call on the watched key found an entry whose expiry is
\* before, or exactly at, the time the call read.
FoundPast(h) == h.was.ok /\ h.was.e.Expires < h.at
FoundDue(h) == h.was.ok /\ h.was.e.Expires = h.at

\* C15 as stated: a Get or Add that finds the key present with
\* expiresAt <= now, the instant expiresAt = now included, removes the entry.
C15_DueIsRemoved ==
    (Has(1) /\ (FoundPast(hist[1]) \/ FoundDue(hist[1]))) => ~hist[1].post.ok

\* C15, amended: a Get or Add that finds the key present with
\* expiresAt < now removes the entry; at the instant expiresAt = now the
\* entry still counts as unexpired and the call leaves it in place.
C15_PastIsRemoved ==
    /\ (Has(1) /\ FoundPast(hist[1])) => ~hist[1].post.ok
    /\ (Has(1) /\ FoundDue(hist[1])) => hist[1].post = hist[1].was

\* A call at the instant of expiry kept the entry, and the next call, made
\* later, removed it.
C15_Witness ==
    /\ Has(2)
    /\ FoundDue(hist[2]) /\ hist[2].post = hist[2].was
    /\ FoundPast(hist[1]) /\ ~hist[1].post.ok
    /\ hist[1].was = hist[2].was

\* A step that is a call on key j.
CallOn(j) == Get(j) \/ \E val \in Vals, ttl \in TTLs : Add(j, val, ttl)

\* C16: an entry leaves the map only in a Get or Add on its own key that
\* finds it expired; a clock tick and every Get or Add on another key leave
\* the key's presence, value and expiry as they were (no step that changes
\* them is a tick or a call on another key).
C16_LazyPerKeyEviction ==
    [][\A k \in Keys :
          /\ (k \in DOMAIN data /\ k \notin DOMAIN data') =>
                 CallOn(k) /\ Before(data[k].Expires, now)
          /\ Lookup(data', k) # Lookup(data, k) =>
                 ~(Tick \/ \E j \in Keys \ {k} : CallOn(j))]_vars

\* The watched key's entry is expired and still in the map, although time
\* has passed and the other key was added after the expiry.
C16_Witness ==
    /\ DOMAIN data = Keys
    /\ data[Watched].Expires < now
    /\ \A k \in Keys \ {Watched} :
          data[k].Expires >= data[Watched].Expires + 3

\* The event cycle w is handling, and whether its start time parsed to a
\* time before the cycle's now.
Current(w) == wf[w].items[wf[w].i]
Stale(w) == Current(w).Start # BadTime /\ Current(w).Start - wf[w].now < 0

\* The step performs Add(id, []byte{0x1}, 15 minutes) on the cache: an
\* absent key gets the marker with an expiry 15 minutes from now, and an
\* entry a concurrent cycle stored meanwhile is treated as Add treats it.
Records(id) ==
    LET l == Lookup(data, id)
    IN /\ data' = AddBody(data, l.e, l.ok, id, <<1>>, 15, now).data
       /\ ~l.ok => Lookup(data', id) = [e |-> cacheEntry(<<1>>, now + 15),
                                        ok |-> TRUE]

GetSucceeds(w) ==
    /\ wpc[w] = "get"
    /\ wf'[w] # wf[w]
    /\ wf'[w].getErr = NilErr

\* C18: when Cache.Get succeeds for an event, the event is skipped: the step
\* posts nothing, leaves the cache as it was without an Add, and goes on to
\* the next listed event, or returns nil after the last one.
C18_HitIsSkipped ==
    [][\A w \in Procs :
          GetSucceeds(w) =>
              /\ KeyState(data, Current(w).Id, now) = "live"
              /\ data' = data
              /\ posts' = posts
              /\ IF wf[w].i < Len(wf[w].items)
                 THEN /\ wpc'[w] = "get"
                      /\ wf'[w].items = wf[w].items
                      /\ wf'[w].i = wf[w].i + 1
                 ELSE /\ wpc'[w] = "done"
                      /\ wf'[w].result = "nil"]_vars

\* A cycle is at the second event of its listing after finding the first
\* one live in the cache.
C18_Witness ==
    \E w \in Procs :
        /\ wpc[w] = "get" /\ wf[w].i = 2
        /\ wf[w].getErr = NilErr
        /\ KeyState(data, wf[w].items[1].Id, now) = "live"
        /\ wf[w].items[2].Id \notin DOMAIN data

PostFailure == "failed to post message to slack"

\* C19: when posting the message for an event fails, the cycle returns the
\* error at once: it adds nothing to the cache, posts nothing and handles no
\* later event, and the key it just missed is still not live, so the next
\* cycle's Get misses it again.
C19_FailedPostNotRecorded ==
    [][\A w \in Procs :
          (wpc[w] = "post" /\ wpc'[w] \notin {"post", "record"}) =>
              /\ wpc'[w] = "done"
              /\ wf'[w].result = PostFailure
              /\ data' = data
              /\ posts' = posts
              /\ KeyState(data', Current(w).Id, now) # "live"]_vars

\* The cycle returned the post failure for the first of two listed events,
\* and neither event is in the cache or in the chat.
C19_Witness ==
    \E w \in Procs :
        /\ wpc[w] = "done" /\ wf[w].result = PostFailure
        /\ data = <<>>
        /\ \A id \in Keys : posts[id].n = 0

====
